---- MODULE Spec2Model ----
(***************************************************************************)
(* Model of the PeerCat SDK request pipeline: PeerCat.request (retry loop, *)
(* per-attempt timeout timer, error classification), parseRateLimitHeaders *)
(* and PeerCatError.fromResponse.  The transport (fetch) and the timers    *)
(* are the environment: their outcomes are drawn from bounded sets.        *)
(***************************************************************************)
EXTENDS Integers, Sequences, FiniteSets, TLC

VARIABLES
  env,            \* the runtime: whether globalThis.fetch, window, navigator are defined
  config,         \* the PeerCatConfig the client was constructed with
  client,         \* the constructed client's fields, or the error the constructor threw
  maxRetries,     \* this.maxRetries (read-only configuration)
  req,            \* the focused call: endpoint, and request()'s method, url, headers, body
  sent,           \* history: arguments of the last transport invocation (fetchFn(url, init))
  pc,             \* position of the call: idle, fetching, body, sleeping, resolved, rejected
  attempt,        \* loop variable of request()
  lastError,      \* local lastError of request()
  timers,         \* attempts whose timeout timer (setTimeout in request) is pending
  signalAborted,  \* controller.signal.aborted of the current attempt's AbortController
  resp,           \* response the current attempt received (status, rate-limit headers)
  delay,          \* ms passed to the last this.sleep(delay)
  result,         \* value request() resolved with
  returned,       \* what the endpoint method settled with once request() resolved
  thrown,         \* error the call rejected with
  calls,          \* history: number of transport invocations of the call
  failures,       \* history: number of attempts that ended in the catch block
  caught,         \* history: the exception the last catch block received
  outcome,        \* history: what the transport delivered to the last attempt
  allSNT,         \* history: every failure so far was a 5xx error, a network failure or a timeout
  sleeps,         \* history: number of backoff sleeps the call has started
  other,          \* the call on the same client that is not in focus (its saved locals)
  tape            \* the script of a scripted transport: its outcome for each attempt index

vars == <<env, config, client, maxRetries, req, sent, pc, attempt, lastError, timers,
          signalAborted, resp, delay, result, returned, thrown, calls, failures, caught,
          outcome, allSNT, sleeps, other, tape>>

\* the runtime, the configuration and the transport's script, which no action changes
constVars == <<env, config, client, maxRetries, tape>>

(***************************************************************************)
(* Bounds                                                                  *)
(***************************************************************************)
MaxRetriesBound == 5
MaxConcRetries == 2

(***************************************************************************)
(* Program constants                                                       *)
(***************************************************************************)
DEFAULT_BASE_URL == <<"https://api.peerc.at">>
DEFAULT_TIMEOUT == 60000
DEFAULT_MAX_RETRIES == 3

(***************************************************************************)
(* JavaScript values                                                       *)
(***************************************************************************)
Undef == "undefined"

\* a JS number-or-undefined: k is "int", "nan" or "undef"
NumInt(n) == [k |-> "int", v |-> n]
NumNaN == [k |-> "nan", v |-> 0]
NumUndef == [k |-> "undef", v |-> 0]

\* truthiness of a JS number-or-undefined: 0, NaN and undefined are falsy
Truthy(x) == x.k = "int" /\ x.v # 0

\* a header as Headers.get returns it: null, or a string (sequence of characters)
HdrNull == [has |-> FALSE, s |-> <<>>]
Hdr(s) == [has |-> TRUE, s |-> s]

\* truthiness of a JS string-or-null: null and "" are falsy
TruthyStr(h) == h.has /\ Len(h.s) > 0

Digits == <<"0", "1", "2", "3", "4", "5", "6", "7", "8", "9">>
IsDigit(c) == \E i \in 1..10 : Digits[i] = c
DigitVal(c) == (CHOOSE i \in 1..10 : Digits[i] = c) - 1

RECURSIVE DigitPrefix(_, _, _)
\* value of the longest digit prefix of s from position i, acc the value so far;
\* -1 when there is no digit at all
DigitPrefix(s, i, acc) ==
  IF i > Len(s) \/ ~IsDigit(s[i])
  THEN acc
  ELSE DigitPrefix(s, i + 1, (IF acc < 0 THEN 0 ELSE acc) * 10 + DigitVal(s[i]))

\* parseInt(s, 10): optional sign, then the leading digits; NaN without digits
ParseInt(s) ==
  LET neg == Len(s) > 0 /\ s[1] = "-"
      start == IF Len(s) > 0 /\ (s[1] = "-" \/ s[1] = "+") THEN 2 ELSE 1
      mag == DigitPrefix(s, start, -1)
  IN IF mag < 0 THEN NumNaN ELSE NumInt(IF neg THEN 0 - mag ELSE mag)

\* Math.pow(2, n) for a non-negative integer n
RECURSIVE Pow2(_)
Pow2(n) == IF n <= 0 THEN 1 ELSE 2 * Pow2(n - 1)

Min(a, b) == IF a <= b THEN a ELSE b

(***************************************************************************)
(* Errors                                                                  *)
(***************************************************************************)
\* an exception value: its class, its name property, the PeerCatError fields,
\* and whether its message includes 'fetch'
\* a RateLimitInfo with no field set
NoRateLimitInfo ==
  [limit |-> NumUndef, remaining |-> NumUndef, reset |-> NumUndef, retryAfter |-> NumUndef]

Exc(cls, name, type, code, message, status, retryAfter, hasFetch) ==
  [cls |-> cls, name |-> name, type |-> type, code |-> code, message |-> message,
   status |-> status, retryAfter |-> retryAfter, hasFetch |-> hasFetch,
   rateLimitInfo |-> NoRateLimitInfo]

NoError == Exc(Undef, Undef, Undef, Undef, Undef, -1, NumUndef, FALSE)

PeerCatError(message, type, code, status) ==
  Exc("PeerCatError", "PeerCatError", type, code, message, status, NumUndef, FALSE)

AuthenticationError(message, code) ==
  Exc("AuthenticationError", "AuthenticationError", "authentication_error", code, message,
      401, NumUndef, FALSE)

InvalidRequestError(message, code) ==
  Exc("InvalidRequestError", "InvalidRequestError", "invalid_request_error", code, message,
      400, NumUndef, FALSE)

InsufficientCreditsError(message, code) ==
  Exc("InsufficientCreditsError", "InsufficientCreditsError", "insufficient_credits", code,
      message, 402, NumUndef, FALSE)

RateLimitError(message, code, rateLimitInfo) ==
  [Exc("RateLimitError", "RateLimitError", "rate_limit_error", code, message,
       429, rateLimitInfo.retryAfter, FALSE) EXCEPT !.rateLimitInfo = rateLimitInfo]

NotFoundError(message, code) ==
  Exc("NotFoundError", "NotFoundError", "not_found", code, message, 404, NumUndef, FALSE)

NetworkError(message) ==
  Exc("NetworkError", "NetworkError", "network_error", "connection_failed", message,
      0, NumUndef, FALSE)

TimeoutError(message) ==
  Exc("TimeoutError", "TimeoutError", "timeout_error", "timeout", message, 0, NumUndef, FALSE)

\* exceptions that are not PeerCatErrors
TypeErrorExc(hasFetch) ==
  Exc("TypeError", "TypeError", Undef, Undef, "type error", -1, NumUndef, hasFetch)
SyntaxErrorExc ==
  Exc("SyntaxError", "SyntaxError", Undef, Undef, "Unexpected token", -1, NumUndef, FALSE)
AbortErrorExc ==
  Exc("DOMException", "AbortError", Undef, Undef, "The operation was aborted", -1,
      NumUndef, FALSE)
PlainErrorExc ==
  Exc("Error", "Error", Undef, Undef, "ECONNRESET", -1, NumUndef, FALSE)

PeerCatClasses ==
  {"PeerCatError", "AuthenticationError", "InvalidRequestError", "InsufficientCreditsError",
   "RateLimitError", "NotFoundError", "NetworkError", "TimeoutError"}

\* error instanceof Error / PeerCatError / RateLimitError / TypeError
IsError(e) == e.cls # Undef
IsPeerCatError(e) == e.cls \in PeerCatClasses
IsRateLimitError(e) == e.cls = "RateLimitError"
IsTypeError(e) == e.cls = "TypeError"

(***************************************************************************)
(* Responses                                                               *)
(***************************************************************************)
\* what response.json() delivers: a rejection (unparseable), JSON null, an
\* object without an `error` member, an error payload, or any other value
BodyUnparseable == [k |-> "unparseable", type |-> Undef, code |-> Undef, message |-> Undef, v |-> Undef]
BodyNull == [k |-> "null", type |-> Undef, code |-> Undef, message |-> Undef, v |-> "null"]
BodyNoError == [k |-> "noerror", type |-> Undef, code |-> Undef, message |-> Undef, v |-> Undef]
BodyPayload(type, code, message) ==
  [k |-> "payload", type |-> type, code |-> code, message |-> message, v |-> Undef]
BodyValue(v) == [k |-> "value", type |-> Undef, code |-> Undef, message |-> Undef, v |-> v]
NoBody == [k |-> "none", type |-> Undef, code |-> Undef, message |-> Undef, v |-> Undef]

\* inputs: HTTP statuses, Retry-After header values, payload tags, code/message pairs
Statuses == {200, 304, 403, 429, 500}
RetryAfterHdrs ==
  {HdrNull, Hdr(<<"0">>), Hdr(<<"2">>), Hdr(<<"-", "1">>), Hdr(<<"a">>)}
PayloadTypes ==
  {"authentication_error", "invalid_request_error", "insufficient_credits",
   "rate_limit_error", "not_found", "server_error", Undef}
CodeMsgs == {<<"c1", "m1">>, <<"c2", "m2">>}
Values == {"v1", "v2"}

OkBodies == {BodyUnparseable, BodyNull} \cup {BodyValue(v) : v \in Values}
ErrBodies ==
  {BodyUnparseable, BodyNull, BodyNoError}
    \cup {BodyPayload(t, "c1", "m1") : t \in PayloadTypes}
    \cup {BodyPayload(t, cm[1], cm[2]) : t \in {"not_found", "rate_limit_error"}, cm \in CodeMsgs}

\* exceptions a transport rejects with while its signal is not aborted
TransportExcs == {TypeErrorExc(TRUE), TypeErrorExc(FALSE), PlainErrorExc}

\* the four rate-limit headers of a response
Headers(limit, remaining, reset, retryAfter) ==
  [limit |-> limit, remaining |-> remaining, reset |-> reset, retryAfter |-> retryAfter]

\* inputs: responses without X-RateLimit-* headers and every Retry-After
\* value, and responses with all, some, zero-valued and malformed headers
HeaderInputs ==
  {Headers(HdrNull, HdrNull, HdrNull, ra) : ra \in RetryAfterHdrs}
    \cup {Headers(Hdr(<<"1", "0", "0">>), Hdr(<<"0">>), Hdr(<<"1", "7">>), Hdr(<<"1", "2">>)),
          Headers(HdrNull, Hdr(<<"5">>), HdrNull, Hdr(<<"2">>)),
          Headers(Hdr(<<"0">>), HdrNull, Hdr(<<"0">>), HdrNull),
          Headers(Hdr(<<>>), Hdr(<<"a">>), Hdr(<<"-", "1">>), Hdr(<<"0">>))}

NoResp ==
  [status |-> -1, statusText |-> Undef, limit |-> HdrNull, remaining |-> HdrNull,
   reset |-> HdrNull, retryAfter |-> HdrNull]
Response(status, hdr) ==
  [status |-> status, statusText |-> "ST", limit |-> hdr.limit, remaining |-> hdr.remaining,
   reset |-> hdr.reset, retryAfter |-> hdr.retryAfter]

\* response.ok
Ok(r) == r.status >= 200 /\ r.status <= 299

\* variant: the parsed number is tested instead of the header string, so a
\* header of value 0 leaves its field unset
parseRateLimitHeaders_TestsNumber(r) ==
  LET field(h) == IF TruthyStr(h) /\ Truthy(ParseInt(h.s)) THEN ParseInt(h.s) ELSE NumUndef
  IN [limit |-> field(r.limit), remaining |-> field(r.remaining),
      reset |-> field(r.reset), retryAfter |-> field(r.retryAfter)]

\* parseRateLimitHeaders: each header is parsed when its string is truthy
parseRateLimitHeaders(r) ==
  LET field(h) == IF TruthyStr(h) THEN ParseInt(h.s) ELSE NumUndef
  IN [limit |-> field(r.limit), remaining |-> field(r.remaining),
      reset |-> field(r.reset), retryAfter |-> field(r.retryAfter)]

\* the errorResponse request() hands to fromResponse: the parsed body, or the
\* synthesized api_error payload when response.json() rejected
ErrorResponseOf(r, body) ==
  IF body.k = "unparseable"
  THEN BodyPayload("api_error", "http_" \o ToString(r.status),
                   "HTTP " \o ToString(r.status) \o ": " \o r.statusText)
  ELSE body

\* variant: the not_found case is missing and falls to the default
fromResponse_NoNotFound(response, status, rateLimitInfo) ==
  IF response.k # "payload"
  THEN TypeErrorExc(FALSE)
  ELSE CASE response.type = "authentication_error" ->
              AuthenticationError(response.message, response.code)
         [] response.type = "invalid_request_error" ->
              InvalidRequestError(response.message, response.code)
         [] response.type = "insufficient_credits" ->
              InsufficientCreditsError(response.message, response.code)
         [] response.type = "rate_limit_error" ->
              RateLimitError(response.message, response.code, rateLimitInfo)
         [] OTHER ->
              PeerCatError(response.message, response.type, response.code, status)

\* variant: the typed errors take the status the transport returned
fromResponse_TransportStatus(response, status, rateLimitInfo) ==
  IF response.k # "payload"
  THEN TypeErrorExc(FALSE)
  ELSE CASE response.type = "authentication_error" ->
              [AuthenticationError(response.message, response.code) EXCEPT !.status = status]
         [] response.type = "invalid_request_error" ->
              [InvalidRequestError(response.message, response.code) EXCEPT !.status = status]
         [] response.type = "insufficient_credits" ->
              [InsufficientCreditsError(response.message, response.code)
                 EXCEPT !.status = status]
         [] response.type = "rate_limit_error" ->
              [RateLimitError(response.message, response.code, rateLimitInfo)
                 EXCEPT !.status = status]
         [] response.type = "not_found" ->
              [NotFoundError(response.message, response.code) EXCEPT !.status = status]
         [] OTHER ->
              PeerCatError(response.message, response.type, response.code, status)

\* PeerCatError.fromResponse: the error `throw PeerCatError.fromResponse(...)`
\* raises, which is a TypeError when response.error cannot be destructured
fromResponse(response, status, rateLimitInfo) ==
  IF response.k # "payload"
  THEN TypeErrorExc(FALSE)
  ELSE CASE response.type = "authentication_error" ->
              AuthenticationError(response.message, response.code)
         [] response.type = "invalid_request_error" ->
              InvalidRequestError(response.message, response.code)
         [] response.type = "insufficient_credits" ->
              InsufficientCreditsError(response.message, response.code)
         [] response.type = "rate_limit_error" ->
              RateLimitError(response.message, response.code, rateLimitInfo)
         [] response.type = "not_found" ->
              NotFoundError(response.message, response.code)
         [] OTHER ->
              PeerCatError(response.message, response.type, response.code, status)

NoOutcome == [kind |-> "none", body |-> NoBody]

(***************************************************************************)
(* PeerCat.request                                                         *)
(***************************************************************************)
\* variant: the delay grows with the transport invocations of the other call
RetryDelay_DependsOnOtherCall(e, a) ==
  (IF IsRateLimitError(e) /\ Truthy(e.retryAfter)
   THEN e.retryAfter.v * 1000
   ELSE Min(1000 * Pow2(a), 10000)) + 100 * other.calls

\* variant: the exponential delay is not capped
RetryDelay_NoCap(e, a) ==
  IF IsRateLimitError(e) /\ Truthy(e.retryAfter)
  THEN e.retryAfter.v * 1000
  ELSE 1000 * Pow2(a)

\* the retry delay computed in the catch block for exception e at attempt a
RetryDelay(e, a) ==
  IF IsRateLimitError(e) /\ Truthy(e.retryAfter)
  THEN e.retryAfter.v * 1000
  ELSE Min(1000 * Pow2(a), 10000)

\* variant: the lower bound is exclusive, so a status of 400 is retried
IsClientError_Above400(e) ==
  IsPeerCatError(e) /\ e.status > 400 /\ e.status < 500 /\ ~IsRateLimitError(e)

\* variant: no upper bound, so a 5xx error is rethrown at once
IsClientError_NoUpper(e) ==
  IsPeerCatError(e) /\ e.status >= 400 /\ ~IsRateLimitError(e)

\* variant: rate-limit errors are not exempted
IsClientError_NoRateLimitExemption(e) ==
  IsPeerCatError(e) /\ e.status >= 400 /\ e.status < 500

\* the catch block's test for an error that is rethrown at once
IsClientError(e) ==
  IsPeerCatError(e) /\ e.status >= 400 /\ e.status < 500 /\ ~IsRateLimitError(e)

\* variant: an aborted attempt is reported as a network failure
Reclassify_AbortAsNetwork(e) ==
  IF (IsTypeError(e) /\ e.hasFetch) \/ e.name = "AbortError"
  THEN NetworkError("Network request failed")
  ELSE e

\* lastError after the catch block's reclassification of exception e
Reclassify(e) ==
  LET afterTimeout == IF IsError(e) /\ e.name = "AbortError"
                      THEN TimeoutError("Request timed out after timeout ms")
                      ELSE e
  IN IF IsTypeError(e) /\ e.hasFetch
     THEN NetworkError("Network request failed")
     ELSE afterTimeout

(***************************************************************************)
(* The client: constructor and endpoint methods                            *)
(***************************************************************************)
\* an optional string of the config: undefined, or a string
StrUndef == [k |-> "undef", s |-> ""]
Str(s) == [k |-> "str", s |-> s]

\* truthiness of an optional string: undefined and '' are falsy
TruthyOpt(x) == x.k = "str" /\ x.s # ""

\* an optional base URL.  A URL is a sequence of pieces; every '/' at the
\* end of the text is a piece of its own, so the URL ends in '/' exactly
\* when its last piece is "/"
UrlUndef == [k |-> "undef", s |-> <<>>]
Url(pieces) == [k |-> "str", s |-> pieces]
EndsWithSlash(u) == Len(u) > 0 /\ u[Len(u)] = "/"

\* String.prototype.replace(/\/$/, ''): the one '/' that ends the text is removed
StripTrailingSlash(u) == IF EndsWithSlash(u) THEN SubSeq(u, 1, Len(u) - 1) ELSE u

\* a config object, field by field
Config(apiKey, baseUrl, timeout, retries, fetch) ==
  [apiKey |-> apiKey, baseUrl |-> baseUrl, timeout |-> timeout, maxRetries |-> retries,
   fetch |-> fetch]

\* a runtime: is globalThis.fetch defined, is window defined, is navigator defined
Env(fetch, window, navigator) == [fetch |-> fetch, window |-> window, navigator |-> navigator]

\* variant: `config.timeout || DEFAULT_TIMEOUT`, which replaces an explicit 0
ConstructTimeout_Or(c) ==
  IF Truthy(c.timeout) THEN c.timeout.v ELSE DEFAULT_TIMEOUT

\* the constructor's `config.timeout ?? DEFAULT_TIMEOUT`
ConstructTimeout(c) ==
  IF c.timeout.k = "undef" THEN DEFAULT_TIMEOUT ELSE c.timeout.v

\* the constructor's `config.maxRetries ?? DEFAULT_MAX_RETRIES`
ConstructMaxRetries(c) ==
  IF c.maxRetries.k = "undef" THEN DEFAULT_MAX_RETRIES ELSE c.maxRetries.v

\* the constructor threw: there is no client
NoClient(message) ==
  [ok |-> FALSE, error |-> message, apiKey |-> "", baseUrl |-> <<>>, timeout |-> 0,
   fetchFn |-> Undef]

ApiKeyRequired == "API key is required"
FetchNotAvailable ==
  "fetch is not available. Please provide a fetch implementation or use Node.js 18+"

\* new PeerCat(c) in runtime e: the fields of the client, or the error thrown
Construct(c, e) ==
  LET fetchFn == IF c.fetch # Undef THEN c.fetch
                 ELSE IF e.fetch THEN "globalThis.fetch" ELSE Undef
  IN IF ~TruthyOpt(c.apiKey) THEN NoClient(ApiKeyRequired)
     ELSE IF fetchFn = Undef THEN NoClient(FetchNotAvailable)
     ELSE [ok |-> TRUE, error |-> "", apiKey |-> c.apiKey.s,
           baseUrl |-> StripTrailingSlash(IF c.baseUrl.k = "undef" THEN DEFAULT_BASE_URL
                                          ELSE c.baseUrl.s),
           timeout |-> ConstructTimeout(c), fetchFn |-> fetchFn]

\* a call of an endpoint method: its name and arguments.  params is an object
\* (sequence of <<key, value>> pairs), id a key id or a transaction signature,
\* name the new key name; hasParams, limit, offset are getHistory's argument
Call(op, params, id, name, hasParams, limit, offset) ==
  [op |-> op, params |-> params, id |-> id, name |-> name, hasParams |-> hasParams,
   limit |-> limit, offset |-> offset]
Call0(op) == Call(op, <<>>, "", "", FALSE, NumUndef, NumUndef)
CallParams(op, params) == Call(op, params, "", "", FALSE, NumUndef, NumUndef)
CallId(op, id, name) == Call(op, <<>>, id, name, FALSE, NumUndef, NumUndef)
CallHistory(hasParams, limit, offset) ==
  Call("getHistory", <<>>, "", "", hasParams, limit, offset)

\* the body argument of request(): left out, or an object
NoBodyArg == [has |-> FALSE, obj |-> <<>>]
BodyArg(obj) == [has |-> TRUE, obj |-> obj]

\* the arguments an endpoint method passes to request()
Req(method, path, body) == [method |-> method, path |-> path, body |-> body]

\* variant: a parameter is put in the query when it is not undefined
HistoryPath_IfDefined(call) ==
  LET l == IF call.hasParams /\ call.limit.k = "int"
           THEN <<"limit=" \o ToString(call.limit.v)>> ELSE <<>>
      o == IF call.hasParams /\ call.offset.k = "int"
           THEN <<"offset=" \o ToString(call.offset.v)>> ELSE <<>>
      q == l \o o
      queryString == IF Len(q) = 0 THEN ""
                     ELSE IF Len(q) = 1 THEN q[1] ELSE q[1] \o "&" \o q[2]
  IN IF queryString # "" THEN "/v1/history?" \o queryString ELSE "/v1/history"

\* getHistory's path: URLSearchParams with limit, then offset, each set when truthy
HistoryPath(call) ==
  LET l == IF call.hasParams /\ Truthy(call.limit)
           THEN <<"limit=" \o ToString(call.limit.v)>> ELSE <<>>
      o == IF call.hasParams /\ Truthy(call.offset)
           THEN <<"offset=" \o ToString(call.offset.v)>> ELSE <<>>
      q == l \o o
      queryString == IF Len(q) = 0 THEN ""
                     ELSE IF Len(q) = 1 THEN q[1] ELSE q[1] \o "&" \o q[2]
  IN IF queryString # "" THEN "/v1/history?" \o queryString ELSE "/v1/history"

\* variant: revokeKey sends the key id as a JSON body too
Endpoint_DeleteWithBody(call) ==
  CASE call.op = "generate" -> Req("POST", "/v1/generate", BodyArg(call.params))
    [] call.op = "getModels" -> Req("GET", "/v1/models", NoBodyArg)
    [] call.op = "getPrices" -> Req("GET", "/v1/price", NoBodyArg)
    [] call.op = "getBalance" -> Req("GET", "/v1/balance", NoBodyArg)
    [] call.op = "getHistory" -> Req("GET", HistoryPath(call), NoBodyArg)
    [] call.op = "createKey" -> Req("POST", "/v1/keys", BodyArg(call.params))
    [] call.op = "listKeys" -> Req("GET", "/v1/keys", NoBodyArg)
    [] call.op = "revokeKey" -> Req("DELETE", "/v1/keys/" \o call.id,
                                    BodyArg(<<<<"keyId", call.id>>>>))
    [] call.op = "updateKeyName" -> Req("PATCH", "/v1/keys/" \o call.id,
                                        BodyArg(<<<<"name", call.name>>>>))
    [] call.op = "submitPrompt" -> Req("POST", "/v1/prompts", BodyArg(call.params))
    [] call.op = "getOnChainStatus" -> Req("GET", "/v1/generate/" \o call.id, NoBodyArg)

\* the endpoint methods: what each passes to request()
Endpoint(call) ==
  CASE call.op = "generate" -> Req("POST", "/v1/generate", BodyArg(call.params))
    [] call.op = "getModels" -> Req("GET", "/v1/models", NoBodyArg)
    [] call.op = "getPrices" -> Req("GET", "/v1/price", NoBodyArg)
    [] call.op = "getBalance" -> Req("GET", "/v1/balance", NoBodyArg)
    [] call.op = "getHistory" -> Req("GET", HistoryPath(call), NoBodyArg)
    [] call.op = "createKey" -> Req("POST", "/v1/keys", BodyArg(call.params))
    [] call.op = "listKeys" -> Req("GET", "/v1/keys", NoBodyArg)
    [] call.op = "revokeKey" -> Req("DELETE", "/v1/keys/" \o call.id, NoBodyArg)
    [] call.op = "updateKeyName" -> Req("PATCH", "/v1/keys/" \o call.id,
                                        BodyArg(<<<<"name", call.name>>>>))
    [] call.op = "submitPrompt" -> Req("POST", "/v1/prompts", BodyArg(call.params))
    [] call.op = "getOnChainStatus" -> Req("GET", "/v1/generate/" \o call.id, NoBodyArg)

\* what the endpoint method does with the value request() resolved with:
\* getModels returns its models field (and throws on null), revokeKey and
\* updateKeyName return nothing, the others return the value
NotReturned == [k |-> "none", v |-> ""]
Settle(op, v) ==
  CASE op = "getModels" -> IF v = "null" THEN [k |-> "throw", v |-> "TypeError"]
                           ELSE [k |-> "value", v |-> v \o ".models"]
    [] op \in {"revokeKey", "updateKeyName"} -> [k |-> "void", v |-> Undef]
    [] OTHER -> [k |-> "value", v |-> v]

\* variant: the User-Agent header is left out only when both globals are defined
BuildHeaders_EitherUndefined(c, e) ==
  [Authorization |-> "Bearer " \o c.apiKey,
   ContentType |-> "application/json",
   UserAgent |-> IF ~e.window \/ ~e.navigator THEN "@peercat/sdk/0.1.0" ELSE Undef]

\* request()'s headers: User-Agent only when neither window nor navigator is defined
BuildHeaders(c, e) ==
  [Authorization |-> "Bearer " \o c.apiKey,
   ContentType |-> "application/json",
   UserAgent |-> IF ~e.window /\ ~e.navigator THEN "@peercat/sdk/0.1.0" ELSE Undef]

\* the locals request() computes before its loop: url and headers
NoReq ==
  [op |-> "", call |-> Call0(""), method |-> "", path |-> "", url |-> <<>>,
   headers |-> [Authorization |-> "", ContentType |-> "", UserAgent |-> Undef],
   body |-> NoBodyArg]
RequestLocals(call) ==
  LET ep == Endpoint(call)
  IN [op |-> call.op, call |-> call, method |-> ep.method, path |-> ep.path,
      url |-> client.baseUrl \o <<ep.path>>,
      headers |-> BuildHeaders(client, env), body |-> ep.body]

\* JSON.stringify of an object whose values are strings
RECURSIVE JoinMembers(_)
JoinMembers(obj) ==
  IF Len(obj) = 0 THEN ""
  ELSE LET member == "\"" \o obj[1][1] \o "\":\"" \o obj[1][2] \o "\""
       IN IF Len(obj) = 1 THEN member ELSE member \o "," \o JoinMembers(Tail(obj))
Stringify(obj) == "{" \o JoinMembers(obj) \o "}"

\* the arguments of this.fetchFn(url, {method, headers, body, signal})
NoSent ==
  [url |-> <<>>, method |-> "",
   headers |-> [Authorization |-> "", ContentType |-> "", UserAgent |-> Undef],
   body |-> Undef]
TransportArgs(r) ==
  [url |-> r.url, method |-> r.method, headers |-> r.headers,
   body |-> IF r.body.has THEN Stringify(r.body.obj) ELSE Undef]

\* variant: the retry budget is shared with the other call on the client
LoopHead_SharedBudget(a, l, r) ==
  /\ attempt' = a
  /\ IF a + other.failures <= maxRetries
     THEN /\ pc' = "fetching"
          /\ timers' = timers \cup {a}
          /\ signalAborted' = FALSE
          /\ calls' = calls + 1
          /\ sent' = TransportArgs(r)
          /\ thrown' = thrown
     ELSE /\ pc' = "rejected"
          /\ thrown' = IF l = NoError THEN NetworkError("Request failed after retries") ELSE l
          /\ UNCHANGED <<timers, signalAborted, calls, sent>>

\* variant: a retry is sent without the request body
LoopHead_RetryWithoutBody(a, l, r) ==
  /\ attempt' = a
  /\ IF a <= maxRetries
     THEN /\ pc' = "fetching"
          /\ timers' = timers \cup {a}
          /\ signalAborted' = FALSE
          /\ calls' = calls + 1
          /\ sent' = (IF a = 0 THEN TransportArgs(r) ELSE [TransportArgs(r) EXCEPT !.body = Undef])
          /\ thrown' = thrown
     ELSE /\ pc' = "rejected"
          /\ thrown' = IF l = NoError THEN NetworkError("Request failed after retries") ELSE l
          /\ UNCHANGED <<timers, signalAborted, calls, sent>>

\* variant: the loop runs one attempt too many
LoopHead_OneMore(a, l, r) ==
  /\ attempt' = a
  /\ IF a <= maxRetries + 1
     THEN /\ pc' = "fetching"
          /\ timers' = timers \cup {a}
          /\ signalAborted' = FALSE
          /\ calls' = calls + 1
          /\ sent' = TransportArgs(r)
          /\ thrown' = thrown
     ELSE /\ pc' = "rejected"
          /\ thrown' = IF l = NoError THEN NetworkError("Request failed after retries") ELSE l
          /\ UNCHANGED <<timers, signalAborted, calls, sent>>

\* head of the for loop with attempt = a and lastError = l: either the next
\* attempt starts (new AbortController, timer armed, transport invoked with
\* the request locals r), or
\* the loop is over and lastError (or the fallback) is thrown
LoopHead(a, l, r) ==
  /\ attempt' = a
  /\ IF a <= maxRetries
     THEN /\ pc' = "fetching"
          /\ timers' = timers \cup {a}
          /\ signalAborted' = FALSE
          /\ calls' = calls + 1
          /\ sent' = TransportArgs(r)
          /\ thrown' = thrown
     ELSE /\ pc' = "rejected"
          /\ thrown' = IF l = NoError THEN NetworkError("Request failed after retries") ELSE l
          /\ UNCHANGED <<timers, signalAborted, calls, sent>>

\* variant: a rate-limit error is retried at once, without a sleep
Catch_NoSleepOnRateLimit(e, src) ==
  /\ caught' = e
  /\ failures' = failures + 1
  /\ allSNT' = (allSNT /\ (src \in {"network", "timeout"}
                             \/ (IsPeerCatError(e) /\ e.status >= 500)))
  /\ IF IsClientError(e)
     THEN /\ lastError' = e
          /\ pc' = "rejected"
          /\ thrown' = e
          /\ UNCHANGED <<attempt, delay, timers, signalAborted, calls, sleeps, sent>>
     ELSE /\ lastError' = Reclassify(e)
          /\ IF attempt < maxRetries /\ ~IsRateLimitError(e)
             THEN /\ delay' = RetryDelay(e, attempt)
                  /\ sleeps' = sleeps + 1
                  /\ pc' = "sleeping"
                  /\ UNCHANGED <<attempt, thrown, timers, signalAborted, calls, sent>>
             ELSE /\ LoopHead(attempt + 1, Reclassify(e), req)
                  /\ UNCHANGED <<delay, sleeps>>

\* variant: the backoff is slept after the last permitted attempt too
Catch_SleepAfterLast(e, src) ==
  /\ caught' = e
  /\ failures' = failures + 1
  /\ allSNT' = (allSNT /\ (src \in {"network", "timeout"}
                             \/ (IsPeerCatError(e) /\ e.status >= 500)))
  /\ IF IsClientError(e)
     THEN /\ lastError' = e
          /\ pc' = "rejected"
          /\ thrown' = e
          /\ UNCHANGED <<attempt, delay, timers, signalAborted, calls, sleeps, sent>>
     ELSE /\ lastError' = Reclassify(e)
          /\ IF attempt <= maxRetries
             THEN /\ delay' = RetryDelay(e, attempt)
                  /\ sleeps' = sleeps + 1
                  /\ pc' = "sleeping"
                  /\ UNCHANGED <<attempt, thrown, timers, signalAborted, calls, sent>>
             ELSE /\ LoopHead(attempt + 1, Reclassify(e), req)
                  /\ UNCHANGED <<delay, sleeps>>

\* the catch block for exception e; src tells where the attempt failed
Catch(e, src) ==
  /\ caught' = e
  /\ failures' = failures + 1
  /\ allSNT' = (allSNT /\ (src \in {"network", "timeout"}
                             \/ (IsPeerCatError(e) /\ e.status >= 500)))
  /\ IF IsClientError(e)
     THEN /\ lastError' = e
          /\ pc' = "rejected"
          /\ thrown' = e
          /\ UNCHANGED <<attempt, delay, timers, signalAborted, calls, sleeps, sent>>
     ELSE /\ lastError' = Reclassify(e)
          /\ IF attempt < maxRetries
             THEN /\ delay' = RetryDelay(e, attempt)
                  /\ sleeps' = sleeps + 1
                  /\ pc' = "sleeping"
                  /\ UNCHANGED <<attempt, thrown, timers, signalAborted, calls, sent>>
             ELSE /\ LoopHead(attempt + 1, Reclassify(e), req)
                  /\ UNCHANGED <<delay, sleeps>>

\* an endpoint method of the client is called and calls this.request
Request(call) ==
  /\ pc = "idle"
  /\ client.ok
  /\ req' = RequestLocals(call)
  /\ lastError' = NoError
  /\ LoopHead(0, NoError, RequestLocals(call))
  /\ UNCHANGED <<constVars, resp, delay, result, returned, failures, caught, outcome,
                 allSNT, sleeps, other>>

\* variant: all attempts share one abort signal, which any timer aborts
TimerFire_SharedSignal(i) ==
  /\ i \in timers
  /\ timers' = timers \ {i}
  /\ signalAborted' = TRUE
  /\ UNCHANGED <<constVars, req, sent, pc, attempt, lastError, resp, delay, result,
                 returned, thrown, calls, failures, caught, outcome, allSNT, sleeps, other>>

\* the timeout timer armed by attempt i fires: controller.abort()
TimerFire(i) ==
  /\ i \in timers
  /\ timers' = timers \ {i}
  /\ signalAborted' = (IF i = attempt THEN TRUE ELSE signalAborted)
  /\ UNCHANGED <<constVars, req, sent, pc, attempt, lastError, resp, delay, result,
                 returned, thrown, calls, failures, caught, outcome, allSNT, sleeps, other>>

\* variant: the transport delivers a response although its signal was aborted
FetchResolve_IgnoresAbort(status, hdr) ==
  /\ pc = "fetching"
  /\ timers' = timers \ {attempt}
  /\ resp' = Response(status, hdr)
  /\ outcome' = [kind |-> "response", body |-> NoBody]
  /\ pc' = "body"
  /\ UNCHANGED <<constVars, req, sent, attempt, lastError, signalAborted, delay, result,
                 returned, thrown, calls, failures, caught, allSNT, sleeps, other>>

\* the transport resolves with a response: clearTimeout, parse the headers
FetchResolve(status, hdr) ==
  /\ pc = "fetching"
  /\ ~signalAborted
  /\ timers' = timers \ {attempt}
  /\ resp' = Response(status, hdr)
  /\ outcome' = [kind |-> "response", body |-> NoBody]
  /\ pc' = "body"
  /\ UNCHANGED <<constVars, req, sent, attempt, lastError, signalAborted, delay, result,
                 returned, thrown, calls, failures, caught, allSNT, sleeps, other>>

\* the transport rejects with exception e (its signal is not aborted)
FetchReject(e) ==
  /\ pc = "fetching"
  /\ ~signalAborted
  /\ outcome' = [kind |-> "reject", body |-> NoBody]
  /\ Catch(e, "network")
  /\ UNCHANGED <<constVars, req, resp, result, returned, other>>

\* the transport rejects because its signal was aborted
FetchAbort ==
  /\ pc = "fetching"
  /\ signalAborted
  /\ outcome' = [kind |-> "abort", body |-> NoBody]
  /\ Catch(AbortErrorExc, "timeout")
  /\ UNCHANGED <<constVars, req, resp, result, returned, other>>

\* variant: a null body is defaulted to undefined
\* (response.json() settles with body: on a success response the call resolves
\* with the value, or catches the parse failure; on a non-success response
\* the error built by fromResponse is thrown into the catch block)
BodyRead_NullDefaulted(body) ==
  /\ pc = "body"
  /\ body \in (IF Ok(resp) THEN OkBodies ELSE ErrBodies)
  /\ outcome' = [kind |-> "response", body |-> body]
  /\ IF Ok(resp)
     THEN IF body.k = "unparseable"
          THEN /\ Catch(SyntaxErrorExc, "body")
               /\ UNCHANGED <<constVars, req, resp, result, returned, other>>
          ELSE /\ pc' = "resolved"
               /\ result' = (IF body.k = "null" THEN Undef ELSE body.v)
               /\ returned' = Settle(req.op, body.v)
               /\ UNCHANGED <<constVars, req, sent, attempt, lastError, timers,
                              signalAborted, resp, delay, thrown, calls, failures, caught,
                              allSNT, sleeps, other>>
     ELSE /\ Catch(fromResponse(ErrorResponseOf(resp, body), resp.status,
                                parseRateLimitHeaders(resp)), "response")
          /\ UNCHANGED <<constVars, req, resp, result, returned, other>>

\* response.json() settles with body: on a success response the call resolves
\* with the value, or catches the parse failure; on a non-success response
\* the error built by fromResponse is thrown into the catch block
BodyRead(body) ==
  /\ pc = "body"
  /\ body \in (IF Ok(resp) THEN OkBodies ELSE ErrBodies)
  /\ outcome' = [kind |-> "response", body |-> body]
  /\ IF Ok(resp)
     THEN IF body.k = "unparseable"
          THEN /\ Catch(SyntaxErrorExc, "body")
               /\ UNCHANGED <<constVars, req, resp, result, returned, other>>
          ELSE /\ pc' = "resolved"
               /\ result' = body.v
               /\ returned' = Settle(req.op, body.v)
               /\ UNCHANGED <<constVars, req, sent, attempt, lastError, timers,
                              signalAborted, resp, delay, thrown, calls, failures, caught,
                              allSNT, sleeps, other>>
     ELSE /\ Catch(fromResponse(ErrorResponseOf(resp, body), resp.status,
                                parseRateLimitHeaders(resp)), "response")
          /\ UNCHANGED <<constVars, req, resp, result, returned, other>>

\* the backoff sleep is over: attempt++, back to the loop head
SleepDone ==
  /\ pc = "sleeping"
  /\ LoopHead(attempt + 1, lastError, req)
  /\ resp' = NoResp
  /\ outcome' = NoOutcome
  /\ UNCHANGED <<constVars, req, lastError, delay, result, returned, failures, caught,
                 allSNT, sleeps, other>>

\* the locals of a call that has not started
IdleCall ==
  [req |-> NoReq, sent |-> NoSent, pc |-> "idle", attempt |-> 0, lastError |-> NoError,
   timers |-> {}, signalAborted |-> FALSE, resp |-> NoResp, delay |-> 0, result |-> Undef,
   returned |-> NotReturned, thrown |-> NoError, calls |-> 0, failures |-> 0,
   caught |-> NoError, outcome |-> NoOutcome, allSNT |-> TRUE, sleeps |-> 0]

\* there is no second call
NoCall == [IdleCall EXCEPT !.pc = "none"]

\* the locals of the call in focus
Me ==
  [req |-> req, sent |-> sent, pc |-> pc, attempt |-> attempt, lastError |-> lastError,
   timers |-> timers, signalAborted |-> signalAborted, resp |-> resp, delay |-> delay,
   result |-> result, returned |-> returned, thrown |-> thrown, calls |-> calls,
   failures |-> failures, caught |-> caught, outcome |-> outcome, allSNT |-> allSNT,
   sleeps |-> sleeps]

\* the event loop turns to the other call on the same client: the two calls'
\* locals change places, the client is untouched
Switch ==
  /\ other.pc # "none"
  /\ other' = Me
  /\ req' = other.req
  /\ sent' = other.sent
  /\ pc' = other.pc
  /\ attempt' = other.attempt
  /\ lastError' = other.lastError
  /\ timers' = other.timers
  /\ signalAborted' = other.signalAborted
  /\ resp' = other.resp
  /\ delay' = other.delay
  /\ result' = other.result
  /\ returned' = other.returned
  /\ thrown' = other.thrown
  /\ calls' = other.calls
  /\ failures' = other.failures
  /\ caught' = other.caught
  /\ outcome' = other.outcome
  /\ allSNT' = other.allSNT
  /\ sleeps' = other.sleeps
  /\ UNCHANGED constVars

\* the state after new PeerCat(c) in runtime e, with second call o and
\* transport script t
Constructed(c, e, o, t) ==
  /\ env = e
  /\ config = c
  /\ client = Construct(c, e)
  /\ maxRetries = (IF Construct(c, e).ok THEN ConstructMaxRetries(c) ELSE 0)
  /\ req = NoReq
  /\ sent = NoSent
  /\ pc = "idle"
  /\ attempt = 0
  /\ lastError = NoError
  /\ timers = {}
  /\ signalAborted = FALSE
  /\ resp = NoResp
  /\ delay = 0
  /\ result = Undef
  /\ returned = NotReturned
  /\ thrown = NoError
  /\ calls = 0
  /\ failures = 0
  /\ caught = NoError
  /\ outcome = NoOutcome
  /\ allSNT = TRUE
  /\ sleeps = 0
  /\ other = o
  /\ tape = t

\* Node.js 18 to 20: fetch is a global, window and navigator are not
NodeEnv == Env(TRUE, FALSE, FALSE)

\* config.maxRetries as the caller may pass it: left out, or an integer;
\* the other fields are a key, a custom fetch and the defaults
ConfigInputs ==
  {Config(Str("pcat_live_key"), UrlUndef, NumUndef, r, "mockFetch") :
     r \in {NumUndef} \cup {NumInt(n) : n \in -1..MaxRetriesBound}}

\* the endpoint called in the retry specification
CallInputs == {Call0("getBalance")}

Init == \E c \in ConfigInputs : Constructed(c, NodeEnv, NoCall, <<>>)

Next ==
  \/ \E call \in CallInputs : Request(call)
  \/ \E i \in 0..MaxRetriesBound : TimerFire(i)
  \/ \E status \in Statuses, hdr \in HeaderInputs : FetchResolve(status, hdr)
  \/ \E e \in TransportExcs : FetchReject(e)
  \/ FetchAbort
  \/ \E body \in OkBodies \cup ErrBodies : BodyRead(body)
  \/ SleepDone

Spec == Init /\ [][Next]_vars

(***************************************************************************)
(* The client API: every config, runtime and endpoint, a small transport   *)
(***************************************************************************)
\* base URLs as the caller may pass them: left out, empty, without a
\* trailing slash, with one, with two, and a bare slash
BaseUrlInputs ==
  {UrlUndef, Url(<<>>), Url(<<"https://api.example.com">>),
   Url(<<"https://api.example.com", "/">>), Url(<<"https://api.example.com", "/", "/">>),
   Url(<<"/">>)}

\* configs and runtimes: one field varied at a time around a base config
\* (key, custom fetch, maxRetries 1) in Node.js, and every runtime
ApiBase == Config(Str("pcat_live_key"), UrlUndef, NumUndef, NumInt(1), "mockFetch")
ApiSetups ==
  {<<ApiBase, Env(f, w, n)>> : f \in BOOLEAN, w \in BOOLEAN, n \in BOOLEAN}
    \cup {<<[ApiBase EXCEPT !.apiKey = k], NodeEnv>> :
            k \in {StrUndef, Str(""), Str("pcat_test_key")}}
    \cup {<<[ApiBase EXCEPT !.baseUrl = u], NodeEnv>> : u \in BaseUrlInputs}
    \cup {<<[ApiBase EXCEPT !.timeout = t], NodeEnv>> : t \in {NumInt(0), NumInt(5000)}}
    \cup {<<[ApiBase EXCEPT !.maxRetries = r], NodeEnv>> : r \in {NumUndef, NumInt(0)}}
    \cup {<<[ApiBase EXCEPT !.timeout = NumInt(0), !.maxRetries = NumInt(0)], NodeEnv>>}
    \cup {<<[ApiBase EXCEPT !.fetch = Undef], Env(f, FALSE, FALSE)>> : f \in BOOLEAN}
    \cup {<<[ApiBase EXCEPT !.apiKey = StrUndef, !.fetch = Undef], Env(FALSE, FALSE, FALSE)>>}

\* getHistory's pagination values: left out, zero, positive, negative, NaN
PageInputs == {NumUndef, NumInt(0), NumInt(10), NumInt(20), NumInt(-1), NumNaN}

\* the endpoint calls
ApiCalls ==
  {Call0(op) : op \in {"getModels", "getPrices", "getBalance", "listKeys"}}
    \cup {CallParams("generate", p) :
            p \in {<<<<"prompt", "a cat">>>>, <<<<"prompt", "a cat">>, <<"model", "m1">>>>}}
    \cup {CallParams("createKey", p) : p \in {<<>>, <<<<"name", "ci">>>>}}
    \cup {CallParams("submitPrompt", <<<<"prompt", "a cat">>, <<"txSignature", "sig1">>>>)}
    \cup {CallId("revokeKey", id, "") : id \in {"key_1", "key_2"}}
    \cup {CallId("updateKeyName", id, "renamed") : id \in {"key_1", "key_2"}}
    \cup {CallId("getOnChainStatus", "sig1", "")}
    \cup {CallHistory(FALSE, NumUndef, NumUndef)}
    \cup {CallHistory(TRUE, l, o) : l \in PageInputs, o \in PageInputs}

\* the transport of the API specification: success, a server error, rate
\* limiting with hints, a network failure or a timeout
ApiStatuses == {200, 429, 500}
ApiHeaders ==
  {Headers(HdrNull, HdrNull, HdrNull, HdrNull),
   Headers(Hdr(<<"1", "0", "0">>), Hdr(<<"0">>), Hdr(<<"1", "7">>), Hdr(<<"2">>))}
ApiBodies ==
  {BodyNull, BodyValue("v1"), BodyPayload("server_error", "c1", "m1"),
   BodyPayload("rate_limit_error", "c1", "m1")}

InitApi == \E s \in ApiSetups : Constructed(s[1], s[2], NoCall, <<>>)

NextApi ==
  \/ \E call \in ApiCalls : Request(call)
  \/ \E i \in 0..DEFAULT_MAX_RETRIES : TimerFire(i)
  \/ \E status \in ApiStatuses, hdr \in ApiHeaders : FetchResolve(status, hdr)
  \/ FetchReject(TypeErrorExc(TRUE))
  \/ FetchAbort
  \/ \E body \in ApiBodies : BodyRead(body)
  \/ SleepDone

SpecApi == InitApi /\ [][NextApi]_vars

(***************************************************************************)
(* Two concurrent calls on one client                                      *)
(***************************************************************************)
\* retry budgets of the shared client
ConcConfigs ==
  {Config(Str("pcat_live_key"), UrlUndef, NumUndef, NumInt(n), "mockFetch") :
     n \in 0..MaxConcRetries}

\* the transport of the concurrent specification: success, rate limiting, a
\* server error, a rejected key, a network failure or a timeout
ConcStatuses == {200, 429, 500}
ConcHeaders ==
  {Headers(HdrNull, HdrNull, HdrNull, HdrNull), Headers(HdrNull, HdrNull, HdrNull, Hdr(<<"2">>))}
ConcBodies ==
  {BodyValue("v1"), BodyPayload("rate_limit_error", "c1", "m1"),
   BodyPayload("authentication_error", "c1", "m1"), BodyPayload("server_error", "c1", "m1")}

InitConc == \E c \in ConcConfigs : Constructed(c, NodeEnv, IdleCall, <<>>)

NextConc ==
  \/ \E call \in CallInputs : Request(call)
  \/ \E i \in 0..MaxConcRetries : TimerFire(i)
  \/ \E status \in ConcStatuses, hdr \in ConcHeaders : FetchResolve(status, hdr)
  \/ FetchReject(TypeErrorExc(TRUE))
  \/ FetchAbort
  \/ \E body \in ConcBodies : BodyRead(body)
  \/ SleepDone
  \/ Switch

SpecConc == InitConc /\ [][NextConc]_vars

(***************************************************************************)
(* One call under fair scheduling: timers fire, an aborted transport       *)
(* rejects, a sleep ends.  The transport itself may never answer and a     *)
(* response body may never arrive.                                         *)
(***************************************************************************)
InitLive == \E c \in ConcConfigs : Constructed(c, NodeEnv, NoCall, <<>>)

NextLive ==
  \/ \E call \in CallInputs : Request(call)
  \/ \E i \in 0..MaxConcRetries : TimerFire(i)
  \/ \E status \in ConcStatuses, hdr \in ConcHeaders : FetchResolve(status, hdr)
  \/ FetchReject(TypeErrorExc(TRUE))
  \/ FetchAbort
  \/ \E body \in ConcBodies : BodyRead(body)
  \/ SleepDone

SpecLive ==
  /\ InitLive
  /\ [][NextLive]_vars
  /\ \A i \in 0..MaxConcRetries : WF_vars(TimerFire(i))
  /\ WF_vars(FetchAbort)
  /\ WF_vars(SleepDone)

(***************************************************************************)
(* Two calls on one client against a scripted transport: the transport     *)
(* delivers to attempt i of either call the i-th outcome of its script     *)
(***************************************************************************)
\* an outcome of the script: a response with its body, a rejection, or no
\* answer before the timeout
TapeResponse(status, hdr, body) ==
  [kind |-> "response", status |-> status, hdr |-> hdr, body |-> body]
TapeReject ==
  [kind |-> "reject", status |-> 0, hdr |-> Headers(HdrNull, HdrNull, HdrNull, HdrNull),
   body |-> NoBody]
TapeTimeout ==
  [kind |-> "abort", status |-> 0, hdr |-> Headers(HdrNull, HdrNull, HdrNull, HdrNull),
   body |-> NoBody]

TapeEntries ==
  {TapeResponse(200, Headers(HdrNull, HdrNull, HdrNull, HdrNull), BodyValue("v1")),
   TapeResponse(200, Headers(HdrNull, HdrNull, HdrNull, HdrNull), BodyUnparseable),
   TapeResponse(429, Headers(HdrNull, HdrNull, HdrNull, Hdr(<<"0">>)),
                BodyPayload("rate_limit_error", "c1", "m1")),
   TapeResponse(429, Headers(HdrNull, HdrNull, HdrNull, Hdr(<<"2">>)),
                BodyPayload("rate_limit_error", "c1", "m1")),
   TapeResponse(500, Headers(HdrNull, HdrNull, HdrNull, HdrNull),
                BodyPayload("server_error", "c1", "m1")),
   TapeResponse(401, Headers(HdrNull, HdrNull, HdrNull, HdrNull),
                BodyPayload("authentication_error", "c1", "m1")),
   TapeReject, TapeTimeout}

\* the script's outcome for the attempt in flight of the call in focus
TapeEntry == tape[attempt + 1]

InitTwin ==
  \E c \in ConcConfigs : \E t \in [1..(c.maxRetries.v + 1) -> TapeEntries] :
     Constructed(c, NodeEnv, IdleCall, t)

NextTwin ==
  \/ \E call \in CallInputs : Request(call)
  \/ \E i \in 0..MaxConcRetries :
        /\ (i = attempt /\ pc = "fetching") => TapeEntry.kind = "abort"
        /\ TimerFire(i)
  \/ /\ pc = "fetching" /\ TapeEntry.kind = "response"
     /\ FetchResolve(TapeEntry.status, TapeEntry.hdr)
  \/ /\ pc = "fetching" /\ TapeEntry.kind = "reject"
     /\ FetchReject(TypeErrorExc(TRUE))
  \/ FetchAbort
  \/ /\ pc = "body"
     /\ BodyRead(TapeEntry.body)
  \/ SleepDone
  \/ Switch

SpecTwin == InitTwin /\ [][NextTwin]_vars

(***************************************************************************)
(* Properties                                                              *)
(***************************************************************************)
\* a categorized error is an instance of PeerCatError
Categorized(e) ==
  e.cls \in {"PeerCatError", "AuthenticationError", "InvalidRequestError",
             "InsufficientCreditsError", "RateLimitError", "NotFoundError",
             "NetworkError", "TimeoutError"}

\* a failure the retry policy surfaces at once: a categorized error of status
\* 4xx that is not of the rate-limit category
SurfacedAtOnce(e) ==
  Categorized(e) /\ e.status \in 400..499 /\ e.cls # "RateLimitError"

\* the last attempt has ended in a failure (the catch block has run on it)
AttemptFailed == failures > 0 /\ pc \in {"sleeping", "rejected"}

\* C1: when an attempt ends in a categorized error whose status is in
\* [400,429) or (429,500), the call rejects with that error and the
\* transport is not invoked again, whatever the retry budget
C1_ClientErrorNotRetried ==
  (failures > 0 /\ Categorized(caught) /\ caught.status \in 400..499 /\ caught.status # 429)
    => (pc = "rejected" /\ thrown = caught /\ calls = failures)

\* C1 witness: a first attempt answered 403 rejects after one transport
\* invocation although three retries were configured
C1_Witness ==
  /\ pc = "rejected"
  /\ maxRetries = 3
  /\ calls = 1
  /\ resp.status = 403
  /\ thrown.status = 403
  /\ thrown.cls = "PeerCatError"

\* C2: after N <= maxRetries failures that were all 5xx errors, network
\* failures or timeouts the call has not rejected, and when the success
\* response then arrives the call resolves with its value after exactly
\* N+1 transport invocations
C2_RetryThenSuccess ==
  /\ (allSNT /\ failures <= maxRetries) => pc # "rejected"
  /\ (pc = "resolved" /\ allSNT)
       => /\ calls = failures + 1
          /\ outcome.kind = "response"
          /\ outcome.body.k \in {"value", "null"}
          /\ result = outcome.body.v
  /\ (outcome.kind = "response" /\ Ok(resp) /\ outcome.body.k \in {"value", "null"})
       => pc = "resolved"

\* C2 witness: three such failures, a budget of exactly three, then success
C2_Witness ==
  /\ pc = "resolved"
  /\ allSNT
  /\ failures = 3
  /\ maxRetries = 3
  /\ calls = 4
  /\ lastError.cls = "TimeoutError"
  /\ result = "v1"

\* the failure of the last attempt as the caller observes it
ObservedFailure ==
  CASE outcome.kind = "abort" -> TimeoutError("Request timed out after timeout ms")
    [] caught.cls = "TypeError" /\ caught.hasFetch -> NetworkError("Network request failed")
    [] OTHER -> caught

\* C3: a call never invokes the transport more than maxRetries+1 times; when
\* all its attempts end in retryable failures it rejects after exactly
\* maxRetries+1 invocations (4 with the default budget) with the failure of
\* the last attempt
C3_RetriesBounded ==
  /\ maxRetries >= 0 => calls <= maxRetries + 1
  /\ (pc = "rejected" /\ maxRetries >= 0 /\ ~SurfacedAtOnce(caught))
       => /\ calls = maxRetries + 1
          /\ failures = maxRetries + 1
          /\ thrown = ObservedFailure
          /\ (config.maxRetries.k = "undef" => calls = 4)

\* C3 witness: the default budget is exhausted by 5xx errors
C3_Witness ==
  /\ pc = "rejected"
  /\ config.maxRetries.k = "undef"
  /\ calls = 4
  /\ failures = 4
  /\ thrown.cls = "PeerCatError"
  /\ thrown.status = 500

\* the last attempt received a non-success response and its body has been read
ErrorResponseRead ==
  outcome.kind = "response" /\ outcome.body.k # "none" /\ resp.status # -1 /\ ~Ok(resp)

\* the Retry-After header of the last response holds an integer
NumericRetryAfter ==
  resp.retryAfter.has /\ Len(resp.retryAfter.s) > 0 /\ ParseInt(resp.retryAfter.s).k = "int"

\* C4: after a failure of the rate_limit_error category whose response carried
\* a numeric Retry-After header of value R (0 included), the delay slept
\* before the next attempt is exactly R * 1000 ms
C4_RetryAfterDelay ==
  (pc = "sleeping" /\ ErrorResponseRead /\ caught.type = "rate_limit_error" /\ NumericRetryAfter)
    => delay = ParseInt(resp.retryAfter.s).v * 1000

\* the exponential backoff for attempt index i: 1000, 2000, 4000, 8000, then 10000
BackoffTable(i) == IF i <= 3 THEN <<1000, 2000, 4000, 8000>>[i + 1] ELSE 10000

\* C5: the delay slept after a retryable failure at attempt index i that is
\* not a rate-limit error carrying a retry-after hint is min(1000 * 2^i, 10000)
\* ms, also when the failed response had a Retry-After header
C5_ExponentialBackoff ==
  (pc = "sleeping" /\ ~(caught.cls = "RateLimitError" /\ caught.retryAfter.k = "int"))
    => delay = BackoffTable(attempt)

\* C5 witness: the fifth attempt fails with a 5xx error whose response had a
\* Retry-After header, and the capped delay of 10000 ms is slept
C5_Witness ==
  /\ pc = "sleeping"
  /\ attempt = 4
  /\ caught.cls = "PeerCatError"
  /\ caught.status = 500
  /\ resp.retryAfter = Hdr(<<"2">>)
  /\ resp.remaining = HdrNull
  /\ delay = 10000

\* C6: the error built from an error payload is a fixed lookup on the
\* payload's type tag, with a fixed status for the five known tags and the
\* transport's status and the original tag otherwise; message and code are
\* carried unchanged
C6_FromResponseLookup ==
  (ErrorResponseRead /\ outcome.body.k = "payload")
    => LET b == outcome.body
       IN /\ caught.message = b.message
          /\ caught.code = b.code
          /\ CASE b.type = "authentication_error" ->
                    caught.cls = "AuthenticationError" /\ caught.status = 401
               [] b.type = "invalid_request_error" ->
                    caught.cls = "InvalidRequestError" /\ caught.status = 400
               [] b.type = "insufficient_credits" ->
                    caught.cls = "InsufficientCreditsError" /\ caught.status = 402
               [] b.type = "rate_limit_error" ->
                    caught.cls = "RateLimitError" /\ caught.status = 429
               [] b.type = "not_found" ->
                    caught.cls = "NotFoundError" /\ caught.status = 404
               [] OTHER ->
                    /\ caught.cls = "PeerCatError"
                    /\ caught.type = b.type
                    /\ caught.status = resp.status

\* C6 witness: a not_found payload delivered with HTTP status 500 yields a
\* NotFound error of status 404
C6_Witness ==
  /\ ErrorResponseRead
  /\ outcome.body = BodyPayload("not_found", "c2", "m2")
  /\ resp.status = 500
  /\ caught.cls = "NotFoundError"
  /\ caught.status = 404
  /\ thrown = caught

\* C7: every rejection carries a categorized error, and a call resolves only
\* when its last attempt received a success response with a parseable body
C7_AlwaysCategorized ==
  /\ pc = "rejected" => Categorized(thrown)
  /\ pc = "resolved"
       => (outcome.kind = "response" /\ Ok(resp) /\ outcome.body.k \in {"value", "null"})

\* C8: a non-success response whose body fails JSON parsing, or parses but
\* lacks the structured error object, fails the attempt with a generic API
\* error carrying the literal HTTP status of the response
C8_MalformedErrorBody ==
  (ErrorResponseRead /\ outcome.body.k \in {"unparseable", "noerror", "null"})
    => /\ caught.cls = "PeerCatError"
       /\ caught.status = resp.status

\* C9: an attempt whose timeout elapses before the transport answered is
\* cancelled and fails with a Timeout error (timeout_error, status 0), which
\* is retried while budget remains and is what the call rejects with otherwise
C9_TimeoutReported ==
  /\ pc = "fetching" => (signalAborted <=> attempt \notin timers)
  /\ outcome.kind = "abort"
       => /\ lastError.cls = "TimeoutError"
          /\ lastError.type = "timeout_error"
          /\ lastError.status = 0
          /\ IF failures <= maxRetries
             THEN pc = "sleeping"
             ELSE pc = "rejected" /\ thrown = lastError

\* C9 witness: the last permitted attempt times out and the call rejects
\* with the Timeout error
C9_Witness ==
  /\ pc = "rejected"
  /\ outcome.kind = "abort"
  /\ calls = 3
  /\ maxRetries = 2
  /\ thrown.cls = "TimeoutError"
  /\ thrown.status = 0

\* C10 as stated: a categorized 4xx error other than 429 is not retried, and
\* every response with HTTP status 429 is retried while budget remains
C10_Every429Retried ==
  /\ (AttemptFailed /\ SurfacedAtOnce(caught) /\ caught.status # 429) => pc = "rejected"
  /\ (ErrorResponseRead /\ resp.status = 429 /\ failures <= maxRetries) => pc = "sleeping"

\* C10 amended: a categorized 4xx error is not retried unless it is of the
\* rate-limit category, and every non-success response whose payload type is
\* rate_limit_error is retried while budget remains
C10_RateLimitRetried ==
  /\ (AttemptFailed /\ SurfacedAtOnce(caught)) => pc = "rejected"
  /\ (ErrorResponseRead /\ outcome.body.k = "payload" /\ outcome.body.type = "rate_limit_error"
        /\ failures <= maxRetries)
       => pc = "sleeping"

\* C10 witness: a 429 rate_limit_error response is followed by a backoff sleep
C10_Witness ==
  /\ pc = "sleeping"
  /\ resp.status = 429
  /\ outcome.body.k = "payload"
  /\ outcome.body.type = "rate_limit_error"
  /\ caught.cls = "RateLimitError"
  /\ failures = 2

\* the integer a header string denotes, for the header strings that denote one
HeaderIntegers ==
  {<< <<"0">>, 0 >>, << <<"2">>, 2 >>, << <<"5">>, 5 >>, << <<"1", "2">>, 12 >>,
   << <<"1", "7">>, 17 >>, << <<"1", "0", "0">>, 100 >>, << <<"-", "1">>, -1 >>}

\* field f of a RateLimitInfo agrees with header h: unset when the header is
\* absent, the header's integer when it denotes one
HintAgrees(f, h) ==
  /\ ~h.has => f.k = "undef"
  /\ \A p \in HeaderIntegers : (h.has /\ h.s = p[1]) => f = NumInt(p[2])

\* C11: a RateLimit error carries the hints of the response that produced it:
\* limit, remaining, reset and retryAfter equal the integer of their header
\* when it is present (0 included) and are unset when it is absent, and the
\* error's retryAfter equals its rateLimitInfo.retryAfter
C11_RateLimitHints ==
  /\ (ErrorResponseRead /\ caught.cls = "RateLimitError")
       => /\ HintAgrees(caught.rateLimitInfo.limit, resp.limit)
          /\ HintAgrees(caught.rateLimitInfo.remaining, resp.remaining)
          /\ HintAgrees(caught.rateLimitInfo.reset, resp.reset)
          /\ HintAgrees(caught.rateLimitInfo.retryAfter, resp.retryAfter)
          /\ caught.retryAfter = caught.rateLimitInfo.retryAfter
          /\ (pc = "rejected" => thrown = caught)
  /\ (pc = "rejected" /\ thrown.cls = "RateLimitError")
       => thrown.retryAfter = thrown.rateLimitInfo.retryAfter

\* C11 witness: a rejected RateLimit error whose response had Limit 100,
\* Remaining 0, Reset 17 and Retry-After 12
C11_Witness ==
  /\ pc = "rejected"
  /\ thrown.cls = "RateLimitError"
  /\ resp.limit = Hdr(<<"1", "0", "0">>)
  /\ thrown.rateLimitInfo =
       [limit |-> NumInt(100), remaining |-> NumInt(0), reset |-> NumInt(17),
        retryAfter |-> NumInt(12)]
  /\ thrown.retryAfter = NumInt(12)

\* C11 second witness: partial headers leave limit and reset unset
C11_WitnessPartial ==
  /\ pc = "rejected"
  /\ thrown.cls = "RateLimitError"
  /\ thrown.rateLimitInfo =
       [limit |-> NumUndef, remaining |-> NumInt(5), reset |-> NumUndef,
        retryAfter |-> NumInt(2)]

\* number of attempts of the call that are in flight: started and not ended
InFlight == calls - failures - (IF pc = "resolved" THEN 1 ELSE 0)

\* C16: at most one attempt of a call is in flight, attempt i+1 starts only
\* after attempt i has failed, and exactly one backoff sleep lies between
\* two consecutive transport invocations
C16_SequentialAttempts ==
  /\ InFlight \in {0, 1}
  /\ InFlight = 1 <=> pc \in {"fetching", "body"}
  /\ pc \in {"fetching", "body"} => (failures = calls - 1 /\ sleeps = calls - 1)
  /\ pc = "sleeping" => (InFlight = 0 /\ sleeps = calls /\ failures = calls)
  /\ pc \in {"resolved", "rejected"} => sleeps = calls - 1 \/ calls = 0

\* C16 witness: the third attempt is in flight after two failures and two sleeps
C16_Witness ==
  /\ pc = "fetching"
  /\ calls = 3
  /\ failures = 2
  /\ sleeps = 2
  /\ attempt = 2

\* the known payload types that fromResponse maps to a non-retryable kind
NonRetryableTypes ==
  {"authentication_error", "invalid_request_error", "insufficient_credits", "not_found"}

\* C20: the retry decision follows the payload's declared type and not the
\* HTTP status: a non-success response of any status with payload type
\* authentication_error, invalid_request_error, insufficient_credits or
\* not_found rejects the call at once, and one with payload type
\* rate_limit_error is retried while budget remains
C20_DecisionFollowsType ==
  /\ (ErrorResponseRead /\ outcome.body.k = "payload" /\ outcome.body.type \in NonRetryableTypes)
       => (pc = "rejected" /\ thrown = caught /\ thrown.type = outcome.body.type
             /\ calls = failures)
  /\ (ErrorResponseRead /\ outcome.body.k = "payload" /\ outcome.body.type = "rate_limit_error")
       => IF failures <= maxRetries THEN pc = "sleeping" ELSE pc = "rejected"

\* C20 witness: a 500 response declaring not_found rejects after one attempt
\* although retries were configured
C20_Witness ==
  /\ pc = "rejected"
  /\ resp.status = 500
  /\ outcome.body.type = "not_found"
  /\ calls = 1
  /\ maxRetries = 2

\* C20 second witness: a 500 response declaring rate_limit_error is retried
C20_WitnessRetried ==
  /\ pc = "sleeping"
  /\ resp.status = 500
  /\ outcome.body.type = "rate_limit_error"
  /\ caught.cls = "RateLimitError"

C13_ConstructorValidation ==
  LET keyMissing == config.apiKey.k = "undef" \/ config.apiKey.s = ""
      noTransport == config.fetch = Undef /\ ~env.fetch
  IN /\ keyMissing => (~client.ok /\ client.error = "API key is required")
     /\ (~keyMissing /\ noTransport) => (~client.ok /\ client.error # "")
     /\ ~client.ok => (pc = "idle" /\ calls = 0 /\ sent = NoSent)
     /\ (~keyMissing /\ ~noTransport) =>
          /\ client.ok
          /\ client.timeout = (IF config.timeout.k = "undef" THEN 60000 ELSE config.timeout.v)
          /\ maxRetries = (IF config.maxRetries.k = "undef" THEN 3 ELSE config.maxRetries.v)
          /\ config.timeout = NumInt(0) => client.timeout = 0
          /\ config.maxRetries = NumInt(0) => maxRetries = 0

C13_Witness ==
  /\ client.ok /\ config.timeout = NumInt(0) /\ config.maxRetries = NumInt(0)
  /\ client.timeout = 0 /\ maxRetries = 0
  /\ pc = "rejected" /\ calls = 1

C13_WitnessNoKey == ~client.ok /\ config.apiKey = Str("") /\ client.error = ApiKeyRequired

C13_WitnessNoFetch ==
  ~client.ok /\ config.apiKey = Str("pcat_live_key") /\ client.error = FetchNotAvailable

\* C14: after a successful construction with any base URL the stored base
\* URL has no trailing slash, and every request URL is the base URL
\* followed directly by the path
C14_NoTrailingSlash ==
  client.ok =>
    /\ ~EndsWithSlash(client.baseUrl)
    /\ calls > 0 => (sent.url = client.baseUrl \o <<req.path>>
                       /\ ~EndsWithSlash(SubSeq(sent.url, 1, Len(sent.url) - 1)))

\* the same for base URLs that end in at most one slash
C14_OneSlashStripped ==
  (client.ok /\ config.baseUrl.k = "str"
     /\ ~EndsWithSlash(SubSeq(config.baseUrl.s, 1, Len(config.baseUrl.s) - 1)))
    => ~EndsWithSlash(client.baseUrl)

\* C17: getHistory's path is /v1/history when no parameters are given, and
\* otherwise carries limit=<limit> iff limit is truthy and offset=<offset> iff
\* offset is truthy, limit first; nothing else enters the path
C17_HistoryPath ==
  (req.op = "getHistory" /\ calls > 0) =>
    LET c == req.call
        hasLimit == c.hasParams /\ c.limit.k = "int" /\ c.limit.v # 0
        hasOffset == c.hasParams /\ c.offset.k = "int" /\ c.offset.v # 0
        expected == "/v1/history"
                      \o (IF hasLimit \/ hasOffset THEN "?" ELSE "")
                      \o (IF hasLimit THEN "limit=" \o ToString(c.limit.v) ELSE "")
                      \o (IF hasLimit /\ hasOffset THEN "&" ELSE "")
                      \o (IF hasOffset THEN "offset=" \o ToString(c.offset.v) ELSE "")
    IN /\ req.path = expected
       /\ sent.url = client.baseUrl \o <<expected>>
       /\ ~c.hasParams => req.path = "/v1/history"
       /\ (c.hasParams /\ c.limit = NumInt(10) /\ c.offset = NumInt(20))
            => req.path = "/v1/history?limit=10&offset=20"
       /\ (c.hasParams /\ c.limit = NumInt(0) /\ c.offset = NumInt(20))
            => req.path = "/v1/history?offset=20"
       /\ (c.hasParams /\ c.limit = NumInt(10) /\ c.offset = NumInt(0))
            => req.path = "/v1/history?limit=10"
       /\ (c.hasParams /\ c.limit = NumInt(0) /\ c.offset = NumUndef)
            => req.path = "/v1/history"

C17_Witness ==
  /\ req.op = "getHistory" /\ calls > 0
  /\ req.call.limit = NumInt(0) /\ req.call.offset = NumInt(20)
  /\ sent.url = <<"https://api.peerc.at", "/v1/history?offset=20">>

C17_WitnessBoth ==
  /\ req.op = "getHistory" /\ calls > 0
  /\ req.call.limit = NumInt(10) /\ req.call.offset = NumInt(20)
  /\ sent.url = <<"https://api.peerc.at", "/v1/history?limit=10&offset=20">>

\* the verb and path each endpoint method must use
VerbAndPath(c) ==
  CASE c.op = "generate" -> <<"POST", "/v1/generate">>
    [] c.op = "getModels" -> <<"GET", "/v1/models">>
    [] c.op = "getPrices" -> <<"GET", "/v1/price">>
    [] c.op = "getBalance" -> <<"GET", "/v1/balance">>
    [] c.op = "createKey" -> <<"POST", "/v1/keys">>
    [] c.op = "listKeys" -> <<"GET", "/v1/keys">>
    [] c.op = "revokeKey" -> <<"DELETE", "/v1/keys/" \o c.id>>
    [] c.op = "updateKeyName" -> <<"PATCH", "/v1/keys/" \o c.id>>
    [] c.op = "submitPrompt" -> <<"POST", "/v1/prompts">>
    [] c.op = "getOnChainStatus" -> <<"GET", "/v1/generate/" \o c.id>>

\* every transport invocation of an endpoint other than getHistory uses the
\* endpoint's verb and path
FixedVerbAndPath ==
  (calls > 0 /\ req.op # "getHistory") =>
    /\ sent.method = VerbAndPath(req.call)[1]
    /\ sent.url = client.baseUrl \o <<VerbAndPath(req.call)[2]>>

\* the JSON text of the parameter objects the calls are made with
ParamsJson(params) ==
  CASE params = <<>> -> "{}"
    [] params = <<<<"prompt", "a cat">>>> -> "{\"prompt\":\"a cat\"}"
    [] params = <<<<"prompt", "a cat">>, <<"model", "m1">>>>
         -> "{\"prompt\":\"a cat\",\"model\":\"m1\"}"
    [] params = <<<<"name", "ci">>>> -> "{\"name\":\"ci\"}"
    [] params = <<<<"prompt", "a cat">>, <<"txSignature", "sig1">>>>
         -> "{\"prompt\":\"a cat\",\"txSignature\":\"sig1\"}"

\* C18 as stated: fixed verb and path per endpoint, every POST, PATCH and
\* DELETE invocation carries a JSON body, and no GET invocation does
C18_MutatingSendBody ==
  /\ FixedVerbAndPath
  /\ calls > 0 => (sent.method \in {"POST", "PATCH", "DELETE"} <=> sent.body # Undef)

\* C18: fixed verb and path per endpoint; every POST invocation carries its
\* params object as JSON, updateKeyName (PATCH) carries {"name": name},
\* and revokeKey (DELETE) and the GET endpoints carry no body
C18_VerbPathBody ==
  /\ FixedVerbAndPath
  /\ calls > 0 =>
       /\ sent.method = "POST" => sent.body = ParamsJson(req.call.params)
       /\ sent.method = "PATCH" => sent.body = "{\"name\":\"" \o req.call.name \o "\"}"
       /\ sent.method \in {"DELETE", "GET"} => sent.body = Undef
       /\ sent.method \in {"POST", "PATCH", "DELETE", "GET"}

C18_Witness ==
  /\ calls = 2 /\ req.op = "revokeKey" /\ sent.method = "DELETE"
  /\ sent.url = <<"https://api.peerc.at", "/v1/keys/key_2">> /\ sent.body = Undef

C18_WitnessPatch ==
  /\ calls > 0 /\ req.op = "updateKeyName" /\ sent.method = "PATCH"
  /\ sent.url = <<"https://api.peerc.at", "/v1/keys/key_1">>
  /\ sent.body = "{\"name\":\"renamed\"}"

\* C19: every transport invocation carries Authorization: Bearer <apiKey>
\* and Content-Type: application/json, and carries the User-Agent header
\* exactly when neither window nor navigator is defined
C19_Headers ==
  calls > 0 =>
    /\ sent.headers.Authorization = "Bearer " \o config.apiKey.s
    /\ config.apiKey = Str("pcat_test_key")
         => sent.headers.Authorization = "Bearer pcat_test_key"
    /\ sent.headers.ContentType = "application/json"
    /\ sent.headers.UserAgent # Undef <=> ~(env.window \/ env.navigator)
    /\ sent.headers.UserAgent \in {Undef, "@peercat/sdk/0.1.0"}

C19_Witness ==
  /\ calls = 2 /\ env.window /\ ~env.navigator
  /\ sent.headers.UserAgent = Undef /\ sent.headers.Authorization = "Bearer pcat_live_key"

C19_WitnessNode ==
  /\ calls = 2 /\ ~env.window /\ ~env.navigator
  /\ sent.headers.UserAgent = "@peercat/sdk/0.1.0"
  /\ sent.headers.Authorization = "Bearer pcat_test_key"

\* what the locals c of a call must satisfy whatever the other call does:
\* its invocations are its failures (plus the attempt in flight or the
\* success), its delay is that of its own last failure, and it is rejected
\* only by a failure that is surfaced at once or by maxRetries+1 failures
\* of its own
OwnAttemptsOnly(c) ==
  /\ c.calls <= maxRetries + 1
  /\ c.pc \in {"fetching", "body"} => (c.calls = c.failures + 1 /\ c.attempt = c.failures)
  /\ c.pc = "resolved" => (c.calls = c.failures + 1 /\ c.thrown = NoError)
  /\ c.pc = "sleeping" =>
       /\ c.calls = c.failures /\ c.failures <= maxRetries
       /\ c.delay = (IF c.caught.cls = "RateLimitError" /\ c.caught.retryAfter = NumInt(2)
                     THEN 2000 ELSE BackoffTable(c.failures - 1))
  /\ c.pc = "rejected" =>
       /\ c.calls = c.failures /\ c.thrown # NoError
       /\ SurfacedAtOnce(c.caught) \/ c.failures = maxRetries + 1

\* with at most maxRetries failures over both calls, a call is rejected only
\* by a failure that is surfaced at once
WithinBudgetNotExhausted ==
  (failures + other.failures <= maxRetries)
    => /\ pc = "rejected" => SurfacedAtOnce(caught)
       /\ other.pc = "rejected" => SurfacedAtOnce(other.caught)

\* C15: concurrent calls on one client share no mutable state: no step of a
\* call changes the configuration, each call's invocations, delays and
\* outcome follow from its own attempts only, and when the transport fails
\* at most maxRetries times over all calls no call runs out of budget
C15_NoSharedState ==
  /\ [](OwnAttemptsOnly(Me) /\ OwnAttemptsOnly(other) /\ WithinBudgetNotExhausted)
  /\ [][env' = env /\ config' = config /\ client' = client /\ maxRetries' = maxRetries]_vars

C15_Witness ==
  /\ maxRetries = 2
  /\ pc = "resolved" /\ failures = 1 /\ caught.cls = "RateLimitError"
  /\ other.pc = "resolved" /\ other.failures = 1 /\ other.caught.cls = "RateLimitError"

C15_WitnessIndependent ==
  /\ maxRetries = 1
  /\ pc = "rejected" /\ failures = 2 /\ other.pc = "resolved" /\ other.failures = 1

\* C21 as stated: a suspension (awaiting the transport, or a backoff sleep)
\* during which the attempt's timeout has elapsed ends as a timeout
C21_TimeoutCutsBoth ==
  [][(signalAborted /\ pc \in {"fetching", "sleeping"} /\ pc' # pc /\ other' = other)
       => outcome'.kind = "abort"]_vars

\* C21: awaiting the transport ends only by the transport's response or
\* rejection or, once the attempt's timeout has elapsed, as a timeout; a
\* backoff sleep is cut short by nothing: the timeout elapsing during it
\* changes neither its delay nor what follows it, the next loop iteration
C21_OnlyFetchCutShort ==
  /\ [][(pc = "fetching" /\ signalAborted /\ pc' # pc /\ other' = other)
          => (outcome'.kind = "abort" /\ caught' = AbortErrorExc
                /\ lastError'.cls = "TimeoutError")]_vars
  /\ [][(pc = "fetching" /\ ~signalAborted /\ pc' # pc /\ other' = other)
          => outcome'.kind \in {"response", "reject"}]_vars
  /\ [][(pc = "sleeping" /\ other' = other)
          => /\ delay' = delay
             /\ pc' # pc => (attempt' = attempt + 1 /\ calls' = calls + 1
                               /\ pc' = "fetching" /\ outcome'.kind = "none")]_vars

C21_Witness == pc = "sleeping" /\ signalAborted /\ delay = 1000

\* C22: a failure that is surfaced at once rejects the call with no sleep
\* after it, the failure of the last permitted attempt rejects the call with
\* no sleep after it, and every sleep is followed by a transport invocation
C22_SleepOnlyBeforeRetry ==
  /\ [](pc = "rejected" /\ failures > 0 => (sleeps = failures - 1 /\ calls = failures))
  /\ []((pc = "rejected" /\ failures > 0 /\ SurfacedAtOnce(caught)) => thrown = caught)
  /\ [](pc = "sleeping" => (attempt < maxRetries /\ ~SurfacedAtOnce(caught)))
  /\ []((failures > 0 /\ failures = maxRetries + 1) => pc = "rejected")
  /\ [][(pc = "sleeping" /\ pc' # pc /\ other' = other)
          => (pc' = "fetching" /\ calls' = calls + 1)]_vars

C22_Witness ==
  pc = "rejected" /\ maxRetries = 2 /\ failures = 3 /\ sleeps = 2 /\ calls = 3

C22_WitnessAtOnce ==
  pc = "rejected" /\ maxRetries = 2 /\ failures = 2 /\ sleeps = 1 /\ SurfacedAtOnce(caught)

\* C23: once the transport has returned a success response for a call, the
\* transport is not invoked again for that call
C23_NoResendAfterSuccess ==
  [][(resp.status # -1 /\ Ok(resp) /\ other' = other) => calls' = calls]_vars

\* C25: once a call has resolved or rejected, no timeout timer armed by it is pending
C25_TimersCancelled ==
  pc \in {"resolved", "rejected"} => timers = {}

\* C26: the delay passed to the sleep is never negative
C26_DelayNonNegative ==
  pc = "sleeping" => delay >= 0

\* C27: a call invokes the transport at least once before it rejects, and
\* the fallback error is thrown only by a call that observed no failure
C27_AtLeastOneAttempt ==
  /\ pc = "rejected" => calls >= 1
  /\ (pc = "rejected" /\ thrown = NetworkError("Request failed after retries"))
       => failures = 0

\* C28: all attempts of a call send the identical request: every transport
\* invocation passes the URL, verb, headers and serialized body computed
\* from the call's arguments, and a retry passes what the attempt before it
\* passed, whatever failure, error payload or rate-limit hints came between
C28_SameRequestResent ==
  /\ [](calls > 0 => (sent.url = req.url /\ sent.method = req.method
                        /\ sent.headers = req.headers
                        /\ (sent.body # Undef <=> req.body.has)))
  /\ [][(calls > 0 /\ calls' = calls + 1 /\ other' = other) => sent' = sent]_vars
  /\ [][(calls > 0 /\ other' = other) => req' = req]_vars

C28_Witness ==
  /\ calls = 2 /\ req.op = "generate" /\ sent.body = "{\"prompt\":\"a cat\"}"
  /\ caught.cls = "RateLimitError" /\ caught.retryAfter = NumInt(2)

\* the attempt in flight of a call with locals c was aborted only by its own timer
AbortedByOwnTimer(c) ==
  /\ (c.pc = "fetching" /\ c.signalAborted) => c.attempt \notin c.timers
  /\ c.outcome.kind = "abort" =>
       (c.failures > 0 /\ (c.failures - 1) \notin c.timers /\ c.caught = AbortErrorExc)
  /\ c.lastError.cls = "TimeoutError" => c.caught = AbortErrorExc

\* C30: each attempt owns a fresh abort signal: an attempt in flight is
\* aborted, and reported as timed out, only after its own timer has fired; a
\* timer of an earlier attempt or of the other call that fires leaves the
\* signal of the attempt in flight as it was
C30_FreshAbortSignal ==
  /\ [](AbortedByOwnTimer(Me) /\ AbortedByOwnTimer(other))
  /\ [][(pc = "fetching" /\ pc' = "fetching" /\ attempt' = attempt /\ other' = other
           /\ attempt \in timers')
          => signalAborted' = signalAborted]_vars
  /\ [][(pc = "sleeping" /\ other' = other /\ pc' = "fetching") => ~signalAborted']_vars

\* a timer left over from attempt 0 has fired while attempt 1 is in flight,
\* and attempt 1 is not aborted
C30_Witness ==
  /\ pc = "fetching" /\ attempt = 1 /\ timers = {1} /\ ~signalAborted
  /\ lastError.cls = "NetworkError" /\ other.pc = "fetching" /\ other.signalAborted

\* C24: every call that has started eventually resolves or rejects, the
\* timeout covering the whole attempt, the reading of the response body included
C24_CallTerminates ==
  (pc \in {"fetching", "body", "sleeping"}) ~> (pc \in {"resolved", "rejected"})

\* the part of an attempt the timeout does cover: awaiting the transport
\* ends, and a backoff sleep ends
C24_FetchAndSleepEnd ==
  /\ (pc = "fetching") ~> (pc # "fetching")
  /\ (pc = "sleeping") ~> (pc # "sleeping")
  /\ [](pc = "body" => attempt \notin timers)

\* a call with locals c has resolved or rejected
Settled(c) == c.pc \in {"resolved", "rejected"}

\* C29: two calls with the same configuration, method, path and body that
\* are given the same sequence of transport outcomes sleep the same delay
\* after the same number of failures, and end after the same number of
\* transport invocations and sleeps with the same result or the same error
C29_Deterministic ==
  (req # NoReq /\ other.req = req) =>
    /\ (pc = "sleeping" /\ other.pc = "sleeping" /\ failures = other.failures)
         => (delay = other.delay /\ caught = other.caught)
    /\ (Settled(Me) /\ Settled(other))
         => /\ pc = other.pc
            /\ calls = other.calls
            /\ sleeps = other.sleeps
            /\ result = other.result
            /\ thrown = other.thrown

C29_Witness ==
  /\ pc = "resolved" /\ other.pc = "resolved" /\ calls = 3 /\ other.calls = 3
  /\ caught.cls = "RateLimitError" /\ delay = 2000 /\ other.delay = 2000

C29_WitnessSleeping ==
  /\ pc = "sleeping" /\ other.pc = "sleeping" /\ failures = 2 /\ other.failures = 2
  /\ delay = 2000 /\ other.delay = 2000

====
